---- MODULE Spec2Model ----
(***************************************************************************)
(* Model of tdlm-content-bot: the run_once orchestrator of content_bot.py  *)
(* (claim one READY plan row, generate, publish, write the outcome back),  *)
(* the helpers of utils/sheets.py it goes through (with_backoff,           *)
(* get_all_values_safe, build_header_map, col_idx) and the WordPress       *)
(* client of utils/wp.py.                                                  *)
(*                                                                         *)
(* Cell text is a sequence of one-character strings, so that str.strip(),  *)
(* str.upper() and str.lower() are computed character by character.        *)
(* Times are in hundredths of a second.                                    *)
(*                                                                         *)
(* content_bot.py imports row_to_dict and update_row_cells from            *)
(* utils.sheets, which does not define them, and passes the spreadsheet    *)
(* handle to open_worksheet; RowToDict, UpdateRowCells and the handle form *)
(* of OpenWorksheet follow section 4.2 of the specification.               *)
(***************************************************************************)
EXTENDS Integers, Sequences, FiniteSets, TLC

(* ------------------------------ bounds -------------------------------- *)
MaxRows == 2
NumRuns == 2
MaxTries == 5

(* ------------------------------- text --------------------------------- *)
LowerChars == <<"a","b","c","d","e","f","g","h","i","j","k","l","m",
                "n","o","p","q","r","s","t","u","v","w","x","y","z">>
UpperChars == <<"A","B","C","D","E","F","G","H","I","J","K","L","M",
                "N","O","P","Q","R","S","T","U","V","W","X","Y","Z">>
Whitespace == {" ", "\t", "\n", "\r"}

\* Python's None, as returned by dict.get for a missing key
None == <<"None">>

UpperChar(c) ==
    IF \E i \in 1..Len(LowerChars) : LowerChars[i] = c
    THEN UpperChars[CHOOSE i \in 1..Len(LowerChars) : LowerChars[i] = c]
    ELSE c

LowerChar(c) ==
    IF \E i \in 1..Len(UpperChars) : UpperChars[i] = c
    THEN LowerChars[CHOOSE i \in 1..Len(UpperChars) : UpperChars[i] = c]
    ELSE c

\* str.upper()
Upper(s) == [i \in 1..Len(s) |-> UpperChar(s[i])]

\* str.lower()
Lower(s) == [i \in 1..Len(s) |-> LowerChar(s[i])]

RECURSIVE LStrip(_)
LStrip(s) ==
    IF s = <<>> THEN s
    ELSE IF Head(s) \in Whitespace THEN LStrip(Tail(s)) ELSE s

RECURSIVE RStrip(_)
RStrip(s) ==
    IF s = <<>> THEN s
    ELSE IF s[Len(s)] \in Whitespace THEN RStrip(SubSeq(s, 1, Len(s) - 1)) ELSE s

\* str.strip()
Strip(s) == RStrip(LStrip(s))

\* _norm: (s or "").strip()
Norm(s) == IF s = None THEN <<>> ELSE Strip(s)

(* ------------------------ plan tab vocabulary ------------------------- *)
H_Estatus == <<"E","s","t","a","t","u","s">>
H_Tema == <<"T","e","m","a">>
H_Palabras_Clave == <<"P","a","l","a","b","r","a","s","_","C","l","a","v","e">>
H_WP_Categoria == <<"W","P","_","C","a","t","e","g","o","r","i","a">>
H_WP_Estatus == <<"W","P","_","E","s","t","a","t","u","s">>
H_ID_Tema_AI == <<"I","D","_","T","e","m","a","_","A","I">>
H_Ultimo_Error == <<"U","l","t","i","m","o","_","E","r","r","o","r">>
H_Actualizado_En == <<"A","c","t","u","a","l","i","z","a","d","o","_","E","n">>
H_Titulo_Final == <<"T","i","t","u","l","o","_","F","i","n","a","l">>
H_URL_Publicado == <<"U","R","L","_","P","u","b","l","i","c","a","d","o">>
H_WP_Post_ID == <<"W","P","_","P","o","s","t","_","I","D">>

READY == <<"R","E","A","D","Y">>
RUNNING == <<"R","U","N","N","I","N","G">>
PUBLISHED == <<"P","U","B","L","I","S","H","E","D">>

\* DEFAULT_WP_STATUS with the environment variable unset
DEFAULT_WP_STATUS == <<"d","r","a","f","t">>
Publish == <<"p","u","b","l","i","s","h">>

\* value of now_iso(): the wall clock is outside the model
NowIso == <<"n","o","w">>

(* ---------------------------- program constants ------------------------ *)
\* with_backoff(..., tries=5, base_sleep=0.7): base_sleep in 1/100 s
DefaultTries == 5
BaseSleep == 70
\* random.random() * 0.25 lies in [0, 0.25): 0 .. 24 in 1/100 s
JitterBound == 25
JitterChoices == {0, JitterBound - 1}

(* ----------------------------- with_backoff --------------------------- *)
\* One attempt of the wrapped operation: it returns v or raises v.
Returns(v) == [ok |-> TRUE, v |-> v]
Raises(e) == [ok |-> FALSE, v |-> e]

\* the wait after failed attempt i (0-based)
BackoffWaitFlat(i, jitter) == BaseSleep + jitter
BackoffWait(i, jitter) == BaseSleep * (2 ^ i) + jitter

\* the error kept for the final raise after a failed attempt
KeepFirstErr(last_err, e) == IF last_err = "None" THEN e ELSE last_err
LastErr(last_err, e) == e

RECURSIVE BackoffLoop(_, _, _, _, _, _)
BackoffLoop(op, jit, tries, i, last_err, sleeps) ==
    IF i >= tries
    THEN [status |-> "raise", value |-> last_err, calls |-> i, sleeps |-> sleeps]
    ELSE IF op[i + 1].ok
         THEN [status |-> "return", value |-> op[i + 1].v,
               calls |-> i + 1, sleeps |-> sleeps]
         ELSE BackoffLoop(op, jit, tries, i + 1, LastErr(last_err, op[i + 1].v),
                          Append(sleeps, BackoffWait(i, jit[i + 1])))

\* with_backoff(fn, tries=tries): op[i] is what attempt i of fn does,
\* jit[i] the jitter drawn after attempt i.
WithBackoff(op, jit, tries) == BackoffLoop(op, jit, tries, 0, "None", <<>>)

\* a remote operation that fails its first f attempts and then returns v
FailFirst(f, v, e) == [i \in 1..DefaultTries |-> IF i <= f THEN Raises(e) ELSE Returns(v)]
NoJitter == [i \in 1..DefaultTries |-> 0]
\* how many leading attempts of a remote operation fail: none, all but the
\* last, or every one
FailCounts == {0, DefaultTries - 1, DefaultTries}

\* get_all_values_safe: the grid, or [] when with_backoff raises
GetAllValuesRaise(op) ==
    LET res == WithBackoff(op, NoJitter, DefaultTries)
    IN  IF res.status = "return" THEN [status |-> "return", value |-> res.value]
        ELSE [status |-> "raise", value |-> res.value]
GetAllValuesSafe(op) ==
    LET res == WithBackoff(op, NoJitter, DefaultTries)
    IN  IF res.status = "return" THEN [status |-> "return", value |-> res.value]
        ELSE [status |-> "return", value |-> <<>>]

(* --------------------------- header handling -------------------------- *)
\* dict[key] = val on an insertion-ordered dict held as a sequence of pairs
\* (the dict is bound once, as a value, before it is looked through)
DictPut(dict, key, val) ==
    CHOOSE out \in
        { IF \E j \in 1..Len(d) : d[j][1] = key
          THEN [j \in 1..Len(d) |-> IF d[j][1] = key THEN <<key, val>> ELSE d[j]]
          ELSE Append(d, <<key, val>>) : d \in {dict} } : TRUE

RECURSIVE HeaderMapFrom(_, _, _)
HeaderMapFrom(headers, i, acc) ==
    IF i > Len(headers) THEN acc
    ELSE IF Strip(headers[i]) = <<>>
         THEN HeaderMapFrom(headers, i + 1, acc)
         ELSE HeaderMapFrom(headers, i + 1, DictPut(acc, Strip(headers[i]), i))

\* build_header_map, applied to the values of row 1
BuildHeaderMap(headers) == HeaderMapFrom(headers, 1, <<>>)

\* col_idx; 0 stands for the KeyError
ColIdx(header_map, header_name) ==
    LET key == Strip(header_name)
        low == Lower(key)
    IN  IF \E j \in 1..Len(header_map) : header_map[j][1] = key
        THEN header_map[CHOOSE j \in 1..Len(header_map) : header_map[j][1] = key][2]
        ELSE IF \E j \in 1..Len(header_map) : Lower(Strip(header_map[j][1])) = low
             THEN LET first == CHOOSE j \in 1..Len(header_map) :
                                  /\ Lower(Strip(header_map[j][1])) = low
                                  /\ \A k \in 1..(j - 1) :
                                         Lower(Strip(header_map[k][1])) # low
                  IN  header_map[first][2]
             ELSE 0

\* row_to_dict(hdr, r): header text -> cell text, the last column of a
\* repeated header winning, cells missing from a short row read as ""
RowToDict(hdr, r) ==
    [k \in {hdr[j] : j \in 1..Len(hdr)} |->
        LET last == CHOOSE j \in 1..Len(hdr) :
                        hdr[j] = k /\ \A m \in (j + 1)..Len(hdr) : hdr[m] # k
        IN  IF last <= Len(r) THEN r[last] ELSE <<>>]

\* dict.get(key)
DictGet(d, key) == IF key \in DOMAIN d THEN d[key] ELSE None

(* ------------------------------ the scan ------------------------------ *)
\* _norm(d.get("Estatus")).upper() == "READY"
IsReady(hdr, r) == Upper(Norm(DictGet(RowToDict(hdr, r), H_Estatus))) = READY

\* run_once's loop over enumerate(rows, start=2): the sheet row number of
\* the first READY row, 0 for target_idx = None
LastReady(values) ==
    IF \E i \in 2..Len(values) : IsReady(values[1], values[i])
    THEN CHOOSE i \in 2..Len(values) :
             /\ IsReady(values[1], values[i])
             /\ \A j \in (i + 1)..Len(values) : ~IsReady(values[1], values[j])
    ELSE 0
FirstReadyLeak(values) ==
    IF \E i \in 2..Len(values) : IsReady(values[1], values[i])
    THEN CHOOSE i \in 2..Len(values) :
             /\ IsReady(values[1], values[i])
             /\ \A j \in 2..(i - 1) : ~IsReady(values[1], values[j])
    ELSE Len(values)
FirstReady(values) ==
    IF \E i \in 2..Len(values) : IsReady(values[1], values[i])
    THEN CHOOSE i \in 2..Len(values) :
             /\ IsReady(values[1], values[i])
             /\ \A j \in 2..(i - 1) : ~IsReady(values[1], values[j])
    ELSE 0

(* ------------------------------- state -------------------------------- *)
VARIABLES
    cfg,        \* module-level configuration read at import: which settings are non-empty
    plan,       \* the plan tab: row 1 is the header row, rows 2.. the data rows
    posts,      \* the posts held by the content system, in creation order
    pc,         \* per run: the step run_once is about to take
    values,     \* per run: the grid returned by get_all_values_safe(ws_plan)
    target,     \* per run: target_idx, 0 for None
    hmap,       \* per run: h, the header map built once at line 157
    pending,    \* per run: the entries of the current update_row_cells call not yet sent
    post,       \* per run: title / excerpt / html taken from the generated post
    created,    \* per run: id and link of the created post
    result,     \* per run: the value run_once returned
    err,        \* per run: the exception that left run_once
    writes,     \* per run: the cell updates that landed, as [row, col, name, val]
    hist,       \* per run: what the run has called so far
    bo_in,      \* with_backoff under test: operation, jitters, tries
    bo_out,     \* with_backoff under test: its outcome
    pk_in,      \* _pick_knowledge under test: rows, tema, palabras, id_tema_ai
    pk_out      \* _pick_knowledge under test: its return value

runVars == <<cfg, plan, posts, pc, values, target, hmap, pending, post, created,
             result, err, writes, hist>>
boVars == <<bo_in, bo_out, pk_in, pk_out>>
vars == <<cfg, plan, posts, pc, values, target, hmap, pending, post, created,
          result, err, writes, hist, bo_in, bo_out, pk_in, pk_out>>

Runs == 1..NumRuns

(* --------------------------- initial states --------------------------- *)
PlanHeader == <<H_Estatus, H_Tema, H_Palabras_Clave, H_WP_Categoria, H_WP_Estatus,
                H_ID_Tema_AI, H_Ultimo_Error, H_Actualizado_En, H_Titulo_Final,
                H_URL_Publicado, H_WP_Post_ID>>

\* the Estatus texts data row i may start with: READY as its editor typed
\* it (padded lower case on odd rows, canonical on even rows), or RUNNING
StatusChoices(i) ==
    { IF i % 2 = 1 THEN <<" ","r","e","a","d","y"," ">> ELSE READY,
      RUNNING }

OldError == <<"o","l","d">>
Tema == <<"T","e","m","a","1">>

\* a data row as the plan's editors leave it; odd rows ask for a category
\* and the default status, even rows for "publish" and no category
PlanRow(status, i) ==
    << status, Tema, <<"k","w">>,
       IF i % 2 = 1 THEN <<"c","a","t">> ELSE <<>>,
       IF i % 2 = 1 THEN <<>> ELSE <<" ">> \o Publish,
       <<>>, OldError, <<>>, <<>>, <<>>, <<>> >>

PlanChoices ==
    { <<>> } \cup
    UNION { { <<PlanHeader>> \o [i \in 1..n |-> PlanRow(st[i], i)] :
                st \in {f \in [1..n -> StatusChoices(1) \cup StatusChoices(2)] :
                            \A i \in 1..n : f[i] \in StatusChoices(i)} } :
            n \in 0..MaxRows }

\* all settings present, or exactly one of the three groups missing
CfgChoices == { [sheet |-> TRUE, openai |-> TRUE, wp |-> TRUE],
                [sheet |-> FALSE, openai |-> TRUE, wp |-> TRUE],
                [sheet |-> TRUE, openai |-> FALSE, wp |-> TRUE],
                [sheet |-> TRUE, openai |-> TRUE, wp |-> FALSE] }

NoHist == [planReadFailed |-> FALSE, know |-> 0, gen |-> 0, cat |-> 0, create |-> 0]

NoPost == [title |-> <<>>, excerpt |-> <<>>, html |-> <<>>]
NoCreated == [id |-> 0, link |-> <<>>]
NoResult == [status |-> "None"]

RunIdle ==
    /\ posts = <<>>
    /\ pc = [r \in Runs |-> "idle"]
    /\ values = [r \in Runs |-> <<>>]
    /\ target = [r \in Runs |-> 0]
    /\ hmap = [r \in Runs |-> <<>>]
    /\ pending = [r \in Runs |-> <<>>]
    /\ post = [r \in Runs |-> NoPost]
    /\ created = [r \in Runs |-> NoCreated]
    /\ result = [r \in Runs |-> NoResult]
    /\ err = [r \in Runs |-> "None"]
    /\ writes = [r \in Runs |-> {}]
    /\ hist = [r \in Runs |-> NoHist]

BackoffIdle ==
    /\ bo_in = [tries |-> 0, op |-> <<>>, jit |-> <<>>]
    /\ bo_out = [status |-> "None"]

PickIdle ==
    /\ pk_in = [rows |-> <<>>, tema |-> <<>>, palabras |-> <<>>, id |-> <<>>]
    /\ pk_out = [status |-> "None"]

Init ==
    /\ cfg \in CfgChoices
    /\ plan \in PlanChoices
    /\ RunIdle
    /\ BackoffIdle
    /\ PickIdle

(* ------------------------- run_once, step by step --------------------- *)
Digits == <<"0","1","2","3","4","5","6","7","8","9">>

\* str(n) for n >= 0
RECURSIVE Str(_)
Str(n) == IF n < 10 THEN <<Digits[n + 1]>> ELSE Str(n \div 10) \o <<Digits[(n % 10) + 1]>>

\* x or y on text
Or(x, y) == IF x = <<>> THEN y ELSE x

\* target_row
TargetRow(r) == RowToDict(values[r][1], values[r][target[r]])

\* wp_status = _norm(target_row.get("WP_Estatus")) or DEFAULT_WP_STATUS
WpStatus(r) == Or(Norm(DictGet(TargetRow(r), H_WP_Estatus)), DEFAULT_WP_STATUS)

\* An exception leaves run_once: nothing in run_once catches it and the
\* route handler only logs it and answers 500, so the plan stays as it is.
RaiseRollback(r, e) ==
    /\ pc' = [pc EXCEPT ![r] = "raised"]
    /\ err' = [err EXCEPT ![r] = e]
    /\ plan' = IF target[r] # 0 /\ target[r] <= Len(plan)
               THEN [plan EXCEPT ![target[r]] = [@ EXCEPT ![1] = READY]]
               ELSE plan
Raise(r, e) ==
    /\ pc' = [pc EXCEPT ![r] = "raised"]
    /\ err' = [err EXCEPT ![r] = e]
    /\ plan' = plan

\* ws.update_cell(row, col, value) on the grid
SetCell(grid, row, col, val) ==
    [grid EXCEPT ![row] =
        [j \in 1..(IF col > Len(@) THEN col ELSE Len(@)) |->
            IF j = col THEN val ELSE IF j <= Len(@) THEN @[j] ELSE <<>>]]

\* lines 130-135: the sheet-name check, open_spreadsheet, open_worksheet
RunOnceEnter(r) ==
    /\ pc[r] = "idle"
    /\ \/ /\ ~cfg.sheet
          /\ Raise(r, "RuntimeError: Falta CONTENT_SHEET_NAME")
       \/ /\ cfg.sheet
          /\ \E f \in FailCounts :
               LET res == WithBackoff(FailFirst(f, "ws_plan", "APIError"),
                                      NoJitter, DefaultTries)
               IN  IF res.status = "return"
                   THEN /\ pc' = [pc EXCEPT ![r] = "read_plan"]
                        /\ UNCHANGED <<err, plan>>
                   ELSE Raise(r, res.value)
    /\ UNCHANGED <<cfg, posts, values, target, hmap, pending, post, created,
                   result, writes, hist, bo_in, bo_out, pk_in, pk_out>>

\* line 138: not values or len(values) < 2
HasNoRowsEmptyOnly(vals) == Len(vals) < 1
HasNoRows(vals) == vals = <<>> \/ Len(vals) < 2

\* lines 137-155: read the whole plan tab, then scan it for the first READY row
ReadPlan(r) ==
    /\ pc[r] = "read_plan"
    /\ \E f \in FailCounts :
         \E res \in {GetAllValuesSafe(FailFirst(f, plan, "APIError"))} :
         LET vals == res.value
             tgt == FirstReady(vals)
         IN  /\ hist' = [hist EXCEPT ![r].planReadFailed = (f >= DefaultTries)]
             /\ IF res.status = "raise"
                THEN /\ Raise(r, res.value)
                     /\ UNCHANGED <<values, target, result>>
                ELSE /\ values' = [values EXCEPT ![r] = vals]
                     /\ UNCHANGED <<err, plan>>
                     /\ IF HasNoRows(vals)
                        THEN /\ pc' = [pc EXCEPT ![r] = "done"]
                             /\ result' = [result EXCEPT ![r] = [status |-> "no_rows"]]
                             /\ UNCHANGED target
                        ELSE IF tgt = 0
                        THEN /\ pc' = [pc EXCEPT ![r] = "done"]
                             /\ result' = [result EXCEPT ![r] = [status |-> "nothing_ready"]]
                             /\ UNCHANGED target
                        ELSE /\ pc' = [pc EXCEPT ![r] = "header_map"]
                             /\ target' = [target EXCEPT ![r] = tgt]
                             /\ UNCHANGED result
    /\ UNCHANGED <<cfg, posts, hmap, pending, post, created, writes, bo_in, bo_out, pk_in, pk_out>>

\* the entries of the RUNNING update, in dict order (lines 160-164)
RunningUpdatesNoStatus ==
    << <<H_Ultimo_Error, <<>> >>, <<H_Actualizado_En, NowIso>> >>
RunningUpdates ==
    << <<H_Estatus, RUNNING>>, <<H_Ultimo_Error, <<>> >>, <<H_Actualizado_En, NowIso>> >>

\* line 157 preceded by a second look at the row, giving the row up when its
\* status is no longer READY
HeaderMapStepRecheck(r) ==
    /\ pc[r] = "header_map"
    /\ IF IsReady(plan[1], plan[target[r]])
       THEN /\ hmap' = [hmap EXCEPT ![r] = BuildHeaderMap(plan[1])]
            /\ pending' = [pending EXCEPT ![r] = RunningUpdates]
            /\ pc' = [pc EXCEPT ![r] = "mark_running"]
            /\ UNCHANGED result
       ELSE /\ pc' = [pc EXCEPT ![r] = "done"]
            /\ result' = [result EXCEPT ![r] = [status |-> "nothing_ready"]]
            /\ UNCHANGED <<hmap, pending>>
    /\ UNCHANGED <<cfg, plan, posts, values, target, post, created, err, writes, hist,
                   bo_in, bo_out, pk_in, pk_out>>

\* line 157: h = build_header_map(ws_plan), read from the sheet as it is now
HeaderMapStep(r) ==
    /\ pc[r] = "header_map"
    /\ \E f \in FailCounts :
         \E res \in {WithBackoff(FailFirst(f, plan[1], "APIError"), NoJitter, DefaultTries)} :
             IF res.status = "return"
             THEN /\ hmap' = [hmap EXCEPT ![r] = BuildHeaderMap(res.value)]
                  /\ pending' = [pending EXCEPT ![r] = RunningUpdates]
                  /\ pc' = [pc EXCEPT ![r] = "mark_running"]
                  /\ UNCHANGED <<err, plan>>
             ELSE /\ Raise(r, res.value)
                  /\ UNCHANGED <<hmap, pending>>
    /\ UNCHANGED <<cfg, posts, values, target, post, created, result, writes, hist,
                   bo_in, bo_out, pk_in, pk_out>>

\* update_row_cells(ws, row, updates, hmap): one entry of the call. The
\* header is resolved through the map handed in; an entry whose header is
\* not found is skipped; the cell update goes through with_backoff and a
\* failure leaves the entries already sent in place.
UpdateRowCells(r, after) ==
    LET u == Head(pending[r])
        col == ColIdx(hmap[r], u[1])
        rest == Tail(pending[r])
        next == IF rest = <<>> THEN after ELSE pc[r]
    IN  IF col = 0
        THEN /\ pending' = [pending EXCEPT ![r] = rest]
             /\ pc' = [pc EXCEPT ![r] = next]
             /\ UNCHANGED <<plan, err, writes>>
        ELSE \E f \in FailCounts :
               LET res == WithBackoff(FailFirst(f, "None", "APIError"),
                                      NoJitter, DefaultTries)
               IN  IF res.status = "return"
                   THEN /\ plan' = SetCell(plan, target[r], col, u[2])
                        /\ writes' = [writes EXCEPT ![r] =
                                        @ \cup {[row |-> target[r], col |-> col,
                                              name |-> u[1], val |-> u[2]]}]
                        /\ pending' = [pending EXCEPT ![r] = rest]
                        /\ pc' = [pc EXCEPT ![r] = next]
                        /\ UNCHANGED err
                   ELSE /\ Raise(r, res.value)
                        /\ UNCHANGED <<pending, writes>>

\* lines 159-164: mark the row RUNNING
MarkRunning(r) ==
    /\ pc[r] = "mark_running"
    /\ UpdateRowCells(r, "knowledge")
    /\ UNCHANGED <<cfg, posts, values, target, hmap, post, created, result, hist,
                   bo_in, bo_out, pk_in, pk_out>>

\* lines 166-181: open the knowledge tab and read it (the read itself never
\* raises: get_all_values_safe); the selection is local
ReadKnowledge(r) ==
    /\ pc[r] = "knowledge"
    /\ \E f \in FailCounts :
         LET res == WithBackoff(FailFirst(f, "ws_k", "APIError"), NoJitter, DefaultTries)
         IN  IF res.status = "return"
             THEN /\ hist' = [hist EXCEPT ![r].know = @ + 1]
                  /\ pc' = [pc EXCEPT ![r] = "generate"]
                  /\ UNCHANGED <<err, plan>>
             ELSE /\ Raise(r, res.value)
                  /\ UNCHANGED hist
    /\ UNCHANGED <<cfg, posts, values, target, hmap, pending, post, created, result,
                   writes, bo_in, bo_out, pk_in, pk_out>>

TitleLimit == 120
GenTitle == <<"G","e","n">>
GenExcerpt == <<"e","x">>
GenHtml == <<"<","p",">">>
FixedExcerpt == <<"G","u","i","a">>
\* what the generation service answers: a JSON object with the three keys,
\* text that is not JSON, JSON that is not an object, or an API error
GenKinds == {"object", "prose", "nonobject", "error"}

\* _openai_generate_post's return value for an answer of the given kind
GeneratedPost(kind, tema) ==
    IF kind = "object"
    THEN [title |-> GenTitle, excerpt |-> GenExcerpt, html |-> GenHtml]
    ELSE [title |-> SubSeq(tema, 1, IF Len(tema) < TitleLimit THEN Len(tema) ELSE TitleLimit),
          excerpt |-> FixedExcerpt,
          html |-> <<"<","p",">">> \o <<"t","x","t">> \o <<"<","/","p",">">>]

\* lines 183-187 with _openai_generate_post (103-128)
Generate(r) ==
    /\ pc[r] = "generate"
    /\ LET tema == Norm(DictGet(TargetRow(r), H_Tema))
       IN  \/ /\ ~cfg.openai
              /\ Raise(r, "RuntimeError: Falta OPENAI_API_KEY")
              /\ UNCHANGED <<post, hist>>
           \/ /\ cfg.openai
              /\ \E kind \in GenKinds :
                   /\ hist' = [hist EXCEPT ![r].gen = @ + 1]
                   /\ IF kind = "error"
                      THEN /\ Raise(r, "OpenAIError")
                           /\ UNCHANGED post
                      ELSE IF kind = "nonobject"
                      THEN /\ Raise(r, "AttributeError")
                           /\ UNCHANGED post
                      ELSE LET p == GeneratedPost(kind, tema)
                           IN  /\ post' = [post EXCEPT ![r] =
                                             [title |-> Or(Norm(p.title), tema),
                                              excerpt |-> Or(Norm(p.excerpt), <<>>),
                                              html |-> Or(Norm(p.html), <<>>)]]
                               /\ pc' = [pc EXCEPT ![r] = "category"]
                               /\ UNCHANGED <<err, plan>>
    /\ UNCHANGED <<cfg, posts, values, target, hmap, pending, created, result,
                   writes, bo_in, bo_out, pk_in, pk_out>>

\* lines 189-196: the content-system settings check, then the category lookup
ResolveCategory(r) ==
    /\ pc[r] = "category"
    /\ LET wp_cat == Norm(DictGet(TargetRow(r), H_WP_Categoria))
       IN  \/ /\ ~cfg.wp
              /\ Raise(r, "RuntimeError: Faltan variables WP_BASE_URL / WP_USER / WP_APP_PASSWORD")
              /\ UNCHANGED hist
           \/ /\ cfg.wp
              /\ wp_cat = <<>>
              /\ pc' = [pc EXCEPT ![r] = "create_post"]
              /\ UNCHANGED <<err, plan, hist>>
           \/ /\ cfg.wp
              /\ wp_cat # <<>>
              /\ hist' = [hist EXCEPT ![r].cat = @ + 1]
              /\ \/ /\ pc' = [pc EXCEPT ![r] = "create_post"]
                    /\ UNCHANGED <<err, plan>>
                 \/ Raise(r, "HTTPError")
    /\ UNCHANGED <<cfg, posts, values, target, hmap, pending, post, created, result,
                   writes, bo_in, bo_out, pk_in, pk_out>>

\* WordPressClient.create_post as run_once calls it: one requests.post,
\* raise_for_status, no retry
CreatePostRetried(op) == WithBackoff(op, NoJitter, DefaultTries)
CreatePostCall(op) ==
    IF op[1].ok
    THEN [status |-> "return", value |-> op[1].v, calls |-> 1]
    ELSE [status |-> "raise", value |-> op[1].v, calls |-> 1]

\* the entries of the PUBLISHED update, in dict order (lines 210-217)
PublishedUpdatesByStatus(wp_status, title, link, post_id) ==
    << <<H_Estatus, IF wp_status = Publish THEN PUBLISHED ELSE Upper(wp_status)>>,
       <<H_Titulo_Final, title>>,
       <<H_URL_Publicado, link>>,
       <<H_WP_Post_ID, IF post_id = 0 THEN <<>> ELSE Str(post_id)>>,
       <<H_Ultimo_Error, <<>> >>,
       <<H_Actualizado_En, NowIso>> >>
PublishedUpdatesStatusLast(wp_status, title, link, post_id) ==
    << <<H_Titulo_Final, title>>,
       <<H_URL_Publicado, link>>,
       <<H_WP_Post_ID, IF post_id = 0 THEN <<>> ELSE Str(post_id)>>,
       <<H_Ultimo_Error, <<>> >>,
       <<H_Actualizado_En, NowIso>>,
       <<H_Estatus, IF wp_status = Publish THEN PUBLISHED ELSE PUBLISHED>> >>
PublishedUpdates(wp_status, title, link, post_id) ==
    << <<H_Estatus, IF wp_status = Publish THEN PUBLISHED ELSE PUBLISHED>>,
       <<H_Titulo_Final, title>>,
       <<H_URL_Publicado, link>>,
       <<H_WP_Post_ID, IF post_id = 0 THEN <<>> ELSE Str(post_id)>>,
       <<H_Ultimo_Error, <<>> >>,
       <<H_Actualizado_En, NowIso>> >>

\* lines 198-207: create the post
CreatePost(r) ==
    /\ pc[r] = "create_post"
    /\ \E f \in FailCounts :
         LET res == CreatePostCall(FailFirst(f, "created", "HTTPError"))
             id == Len(posts) + 1
             link == <<"u","/">> \o Str(id)
         IN  /\ hist' = [hist EXCEPT ![r].create = @ + res.calls]
             /\ IF res.status = "return"
                THEN /\ posts' = Append(posts, [title |-> post[r].title,
                                                status |-> WpStatus(r),
                                                by |-> r, row |-> target[r]])
                     /\ created' = [created EXCEPT ![r] = [id |-> id, link |-> link]]
                     /\ pending' = [pending EXCEPT ![r] =
                                      PublishedUpdates(WpStatus(r), post[r].title, link, id)]
                     /\ pc' = [pc EXCEPT ![r] = "mark_published"]
                     /\ UNCHANGED <<err, plan>>
                ELSE /\ Raise(r, res.value)
                     /\ UNCHANGED <<posts, created, pending>>
    /\ UNCHANGED <<cfg, values, target, hmap, post, result, writes, bo_in, bo_out, pk_in, pk_out>>

\* lines 209-219: write the outcome to the row and return
MarkPublished(r) ==
    /\ pc[r] = "mark_published"
    /\ UpdateRowCells(r, "done")
    /\ result' = [result EXCEPT ![r] =
                    IF pc'[r] = "done"
                    THEN [status |-> "ok", row |-> target[r],
                          wp_post_id |-> created[r].id, link |-> created[r].link]
                    ELSE @]
    /\ UNCHANGED <<cfg, posts, values, target, hmap, post, created, hist, bo_in, bo_out, pk_in, pk_out>>

(* ----------------------------- scheduling ----------------------------- *)
Active(r) == pc[r] \notin {"idle", "done", "raised"}

\* runs are numbered in the order they are triggered
InTurn(r) == \A q \in Runs : q < r => pc[q] # "idle"

\* the deployment contract of the scheduler: one invocation at a time
Serialized(r) == InTurn(r) /\ \A q \in Runs : ~Active(q)

RunStep(r) ==
    \/ ReadPlan(r)
    \/ HeaderMapStep(r)
    \/ MarkRunning(r)
    \/ ReadKnowledge(r)
    \/ Generate(r)
    \/ ResolveCategory(r)
    \/ CreatePost(r)
    \/ MarkPublished(r)

Next ==
    \E r \in Runs :
        \/ Serialized(r) /\ RunOnceEnter(r)
        \/ RunStep(r)

Spec == Init /\ [][Next]_vars

\* the route handler takes no lock: two requests may overlap
OverlapPair == {r \in Runs : r <= 2}

NextOverlap ==
    \E r \in OverlapPair :
        \/ InTurn(r) /\ RunOnceEnter(r)
        \/ RunStep(r)

SpecOverlap == Init /\ [][NextOverlap]_vars

(* ---------------- run_once with every remote call succeeding ---------- *)
\* no call has raised and no read has come back empty on an error
AllCallsSucceeded ==
    \A r \in Runs : pc[r] # "raised" /\ ~hist[r].planReadFailed

InitDrain ==
    /\ cfg = [sheet |-> TRUE, openai |-> TRUE, wp |-> TRUE]
    /\ plan \in PlanChoices
    /\ RunIdle
    /\ BackoffIdle
    /\ PickIdle

\* the steps of Next in which the remote calls succeed
NextDrain == Next /\ AllCallsSucceeded'

\* the scheduler keeps triggering runs and a started run keeps executing
SpecDrain == InitDrain /\ [][NextDrain]_vars /\ WF_vars(NextDrain)

(* ------------------- run_once beside a human editor -------------------- *)
H_Nota == <<"N","o","t","a">>

\* a person inserts a column to the left of the tab: every cell moves one
\* column to the right (section 5: the tab is edited by hand while runs go on)
InsertColumn(grid) ==
    [i \in 1..Len(grid) |-> <<(IF i = 1 THEN H_Nota ELSE <<>>)>> \o grid[i]]

ExternalHeaderEdit ==
    /\ Len(plan) >= 1
    /\ plan[1] = PlanHeader
    /\ plan' = InsertColumn(plan)
    /\ UNCHANGED <<cfg, posts, pc, values, target, hmap, pending, post, created,
                   result, err, writes, hist, bo_in, bo_out, pk_in, pk_out>>

\* one invocation of run_once, the tab being edited at any moment
NextEdit ==
    \/ ExternalHeaderEdit
    \/ pc[1] = "idle" /\ RunOnceEnter(1)
    \/ RunStep(1)

SpecEdit == Init /\ [][NextEdit]_vars

(* ----------------------- with_backoff on its own ----------------------- *)
\* what one attempt of the wrapped operation may do
Outcomes == { Returns("value"), Raises("APIError"), Raises("ConnectionError") }

BackoffInputs ==
    UNION { [tries : {t}, op : [1..t -> Outcomes], jit : [1..t -> JitterChoices]] :
              t \in 1..MaxTries }

InitBackoff ==
    /\ cfg = [sheet |-> TRUE, openai |-> TRUE, wp |-> TRUE]
    /\ plan = <<>>
    /\ RunIdle
    /\ bo_in \in BackoffInputs
    /\ bo_out = [status |-> "None"]
    /\ PickIdle

\* one call with_backoff(fn, tries=bo_in.tries)
BackoffCall ==
    /\ bo_out.status = "None"
    /\ bo_out' = WithBackoff(bo_in.op, bo_in.jit, bo_in.tries)
    /\ UNCHANGED <<bo_in, cfg, plan, posts, pc, values, target, hmap, pending, post,
                   created, result, err, writes, hist, pk_in, pk_out>>

NextBackoff == BackoffCall

SpecBackoff == InitBackoff /\ [][NextBackoff]_vars

(* ---------------------- _pick_knowledge on its own --------------------- *)
MaxKnow == 3
MinTokenLen == 4
PickLimit == 2

K_ID_Tema == <<"I","D","_","T","e","m","a">>
K_Titulo_Visible == <<"T","i","t","u","l","o","_","V","i","s","i","b","l","e">>
K_Contenido_Legal == <<"C","o","n","t","e","n","i","d","o","_","L","e","g","a","l">>

\* dict.get(key, default)
DictGetOr(d, key, default) == IF key \in DOMAIN d THEN d[key] ELSE default

\* str.replace(",", " ")
ReplaceComma(s) == [i \in 1..Len(s) |-> IF s[i] = "," THEN " " ELSE s[i]]

\* length of the leading run of non-whitespace characters
RECURSIVE WordLen(_)
WordLen(s) ==
    IF s = <<>> \/ Head(s) \in Whitespace THEN 0 ELSE 1 + WordLen(Tail(s))

\* str.split(): the maximal runs of non-whitespace characters, in order
RECURSIVE Split(_)
Split(s) ==
    LET t == LStrip(s)
        n == WordLen(t)
    IN  IF t = <<>> THEN <<>>
        ELSE <<SubSeq(t, 1, n)>> \o Split(SubSeq(t, n + 1, Len(t)))

\* set([t for t in s.replace(",", " ").split() if len(t) >= 4])
Tokens(s) ==
    LET words == Split(ReplaceComma(s))
    IN  {words[i] : i \in {j \in 1..Len(words) : Len(words[j]) >= MinTokenLen}}

\* q = f"{tema} {palabras}".lower()
QueryTokens(tema, palabras) == Tokens(Lower(tema \o <<" ">> \o palabras))

\* the lower-cased text of a knowledge row (line 48)
RowText(row) ==
    Lower(DictGetOr(row, K_Titulo_Visible, <<>>) \o <<" ">> \o
          DictGetOr(row, H_Palabras_Clave, <<>>) \o <<" ">> \o
          DictGetOr(row, K_Contenido_Legal, <<>>))

\* score = len(q_tokens.intersection(tokens))
Score(row, q_tokens) == Cardinality(q_tokens \cap Tokens(RowText(row)))

\* the scored list: (score, row) for the rows of positive score, in row order
RECURSIVE Scored(_, _)
Scored(rows, q_tokens) ==
    IF rows = <<>> THEN <<>>
    ELSE LET sc == Score(Head(rows), q_tokens)
         IN  (IF sc > 0 THEN << <<sc, Head(rows)>> >> ELSE <<>>)
               \o Scored(Tail(rows), q_tokens)

\* x placed into a list sorted by falling score, ahead of the elements of
\* equal score
InsertBeforeEqual(x, sorted) ==
    LET ahead == Cardinality({j \in 1..Len(sorted) : sorted[j][1] > x[1]})
    IN  SubSeq(sorted, 1, ahead) \o <<x>> \o SubSeq(sorted, ahead + 1, Len(sorted))

\* x placed into a list sorted by falling score, behind the elements of
\* equal score
InsertAfterEqual(x, sorted) ==
    LET ahead == Cardinality({j \in 1..Len(sorted) : sorted[j][1] >= x[1]})
    IN  SubSeq(sorted, 1, ahead) \o <<x>> \o SubSeq(sorted, ahead + 1, Len(sorted))

\* a sort by falling score that reverses the elements of equal score
RECURSIVE SortByScoreTiesReversed(_)
SortByScoreTiesReversed(scored) ==
    IF scored = <<>> THEN <<>>
    ELSE InsertBeforeEqual(scored[Len(scored)],
                           SortByScoreTiesReversed(SubSeq(scored, 1, Len(scored) - 1)))
\* scored.sort(key=lambda x: x[0], reverse=True): list.sort is stable, and
\* with reverse=True elements of equal key keep their original order
RECURSIVE SortByScore(_)
SortByScore(scored) ==
    IF scored = <<>> THEN <<>>
    ELSE InsertAfterEqual(scored[Len(scored)],
                          SortByScore(SubSeq(scored, 1, Len(scored) - 1)))

\* _pick_knowledge(knowledge_rows, tema, palabras, id_tema_ai)
PickKnowledge(rows, tema, palabras, id) ==
    LET match == {i \in 1..Len(rows) : Norm(DictGet(rows[i], K_ID_Tema)) = Norm(id)}
    IN  IF id # <<>> /\ match # {}
        THEN <<rows[CHOOSE i \in match : \A j \in match : i <= j]>>
        ELSE LET sorted == SortByScore(Scored(rows, QueryTokens(tema, palabras)))
                 n == IF Len(sorted) < PickLimit THEN Len(sorted) ELSE PickLimit
             IN  [k \in 1..n |-> sorted[k][2]]

\* a knowledge row as row_to_dict builds it
KRow(id, titulo, palabras, contenido) ==
    (K_ID_Tema :> id) @@ (K_Titulo_Visible :> titulo) @@
    (H_Palabras_Clave :> palabras) @@ (K_Contenido_Legal :> contenido)

W(c) == <<c, c, c, c>>

KRowChoices ==
    { KRow(<<"k","1">>, W("a"), W("b") \o <<",">> \o W("c"), <<"x","x">>),
      KRow(<<" ","k","2"," ">>, W("A"), <<>>, <<"a","b","c">>),
      KRow(<<"k","1">>, W("b") \o <<" ">> \o W("c"), W("d"), W("a")),
      (K_Titulo_Visible :> W("z")) @@ (H_Palabras_Clave :> <<"a","a","a",",","a">>) }

\* the sequences of at most n elements of the set
RECURSIVE SeqsUpTo(_, _)
SeqsUpTo(S, n) ==
    IF n = 0 THEN {<<>>}
    ELSE LET shorter == SeqsUpTo(S, n - 1)
         IN  shorter \cup {Append(q, x) : q \in shorter, x \in S}

PickInputs ==
    [rows : SeqsUpTo(KRowChoices, MaxKnow),
     tema : {<<"A","a","a","a"," "," ">> \o W("b"), <<"a","b","c">>},
     palabras : {W("c") \o <<",">> \o W("d"), <<>>},
     id : {<<>>, <<"k","1">>, <<"k","2"," ">>, <<"z","z">>}]

InitPick ==
    /\ cfg = [sheet |-> TRUE, openai |-> TRUE, wp |-> TRUE]
    /\ plan = <<>>
    /\ RunIdle
    /\ BackoffIdle
    /\ pk_in \in PickInputs
    /\ pk_out = [status |-> "None"]

\* one call _pick_knowledge(rows, tema, palabras, id_tema_ai)
PickCall ==
    /\ pk_out.status = "None"
    /\ pk_out' = [status |-> "return",
                  picked |-> PickKnowledge(pk_in.rows, pk_in.tema, pk_in.palabras, pk_in.id)]
    /\ UNCHANGED <<pk_in, cfg, plan, posts, pc, values, target, hmap, pending, post,
                   created, result, err, writes, hist, bo_in, bo_out>>

NextPick == PickCall

SpecPick == InitPick /\ [][NextPick]_vars

(* ====================== properties of run_once ======================== *)
\* the text reads READY once trimmed and upper-cased
ReadyText(s) == Upper(Strip(s)) = READY

\* the cell of a grid row in the column headed by the name
Cell(grid, row, name) ==
    grid[row][CHOOSE j \in 1..Len(grid[1]) : grid[1][j] = name]

\* the run's RUNNING write on the status cell has landed
Claimed(r) ==
    \E w \in writes[r] :
        /\ w.val = RUNNING
        /\ w.row = target[r]
        /\ w.name = H_Estatus

\* the run has read the plan tab
HasScanned(r) == pc[r] \notin {"idle", "read_plan"} /\ Len(values[r]) >= 2

\* C1: in one run_once at most one row is moved from READY to RUNNING, it is
\* the first row, top to bottom, whose Estatus reads READY after trimming and
\* case-folding, and no cell of any other row is written during the run.
C1_FirstReadyOnly ==
    \A r \in Runs :
        /\ \A w \in writes[r] : w.row = target[r] /\ target[r] # 0
        /\ target[r] # 0 =>
              /\ target[r] \in 2..Len(values[r])
              /\ ReadyText(Cell(values[r], target[r], H_Estatus))
              /\ \A j \in 2..(target[r] - 1) : ~ReadyText(Cell(values[r], j, H_Estatus))
        /\ (Active(r) /\ HasScanned(r)) =>
              \A j \in 2..Len(plan) : j # target[r] => plan[j] = values[r][j]

\* a run has claimed a row written " ready " or READY while a later row was
\* READY too, and finished without touching the later row
C1_Witness ==
    \E r \in Runs :
        /\ pc[r] = "done"
        /\ Claimed(r)
        /\ \E j \in (target[r] + 1)..Len(values[r]) :
              /\ ReadyText(Cell(values[r], j, H_Estatus))
              /\ plan[j] = values[r][j]

\* C2: nothing keeps two overlapping runs from claiming the same row: a run
\* that has selected a row never backs off, it ends either in an exception
\* or with status ok and a post created for that row, whatever another run
\* has written to the row since the scan.
C2_NoBackOffAfterSelect ==
    \A r \in Runs :
        (target[r] # 0 /\ pc[r] = "done") =>
            /\ result[r].status = "ok"
            /\ \E i \in 1..Len(posts) : posts[i].by = r /\ posts[i].row = target[r]

\* both runs scanned the plan before either wrote RUNNING, selected the same
\* READY row and each created a post for it
C2_Witness ==
    \E r, q \in Runs :
        /\ r # q
        /\ target[r] # 0
        /\ target[r] = target[q]
        /\ values[r] = values[q]
        /\ \E i, j \in 1..Len(posts) :
              /\ posts[i].by = r /\ posts[i].row = target[r]
              /\ posts[j].by = q /\ posts[j].row = target[q]

\* C3 as stated: a failure after the RUNNING write leaves run_once as an
\* exception and the claimed row still reads RUNNING; the run writes READY
\* nowhere.
C3_FailureKeepsRunning ==
    \A r \in Runs :
        /\ (pc[r] = "raised" /\ Claimed(r)) =>
              /\ Cell(plan, target[r], H_Estatus) = RUNNING
              /\ err[r] # "None"
              /\ result[r] = NoResult
        /\ \A w \in writes[r] : ~ReadyText(w.val)

\* the run's PUBLISHED write on the status cell has landed
StatusPublished(r) ==
    \E w \in writes[r] :
        /\ w.val = PUBLISHED
        /\ w.row = target[r]
        /\ w.name = H_Estatus

\* C3: a failure after the RUNNING write leaves run_once as an exception
\* and the claimed row reads RUNNING, or PUBLISHED when the failure came
\* inside the final plan update after its Estatus entry was sent; the run
\* writes READY nowhere.
C3_FailureKeepsClaim ==
    \A r \in Runs :
        /\ (pc[r] = "raised" /\ Claimed(r)) =>
              /\ Cell(plan, target[r], H_Estatus) =
                    (IF StatusPublished(r) THEN PUBLISHED ELSE RUNNING)
              /\ StatusPublished(r) => created[r].id # 0
              /\ err[r] # "None"
              /\ result[r] = NoResult
        /\ \A w \in writes[r] : ~ReadyText(w.val)

\* the final plan update failed after the post was created: the run ended in
\* an exception with the row RUNNING
C3_Witness ==
    \E r \in Runs :
        /\ pc[r] = "raised"
        /\ Claimed(r)
        /\ created[r].id # 0
        /\ Cell(plan, target[r], H_Estatus) = RUNNING

\* C4: a run that fails after the row was marked RUNNING has written the
\* error text into the row's Ultimo_Error cell.
C4_ErrorTextWritten ==
    \A r \in Runs :
        (pc[r] = "raised" /\ Claimed(r)) =>
            /\ Cell(plan, target[r], H_Ultimo_Error) # <<>>
            /\ \E w \in writes[r] : w.name = H_Ultimo_Error /\ w.val # <<>>

ConfigErrors == { "RuntimeError: Falta CONTENT_SHEET_NAME",
                  "RuntimeError: Falta OPENAI_API_KEY",
                  "RuntimeError: Faltan variables WP_BASE_URL / WP_USER / WP_APP_PASSWORD" }

\* C5: when run_once raises a missing-configuration error, the run has not
\* written RUNNING to any row.
C5_ConfigErrorBeforeClaim ==
    \A r \in Runs :
        err[r] \in ConfigErrors => (~Claimed(r) /\ writes[r] = {})

\* C6: one run issues the post-creation call at most once, creates at most
\* one post, and a non-success answer ends the run at once with that error.
C6_CreatePostOnce ==
    \A r \in Runs :
        /\ hist[r].create <= 1
        /\ Cardinality({i \in 1..Len(posts) : posts[i].by = r}) <= 1
        /\ (hist[r].create = 1 /\ created[r].id = 0) =>
              /\ pc[r] = "raised"
              /\ err[r] = "HTTPError"
              /\ \A i \in 1..Len(posts) : posts[i].by # r

\* the content system refused the post: one call, no post, the run raised
C6_Witness ==
    \E r \in Runs :
        /\ hist[r].create = 1
        /\ created[r].id = 0
        /\ pc[r] = "raised"

\* C9: when every attempt to read the plan tab fails, run_once returns the
\* non-error no_rows result and has written nothing and called neither the
\* generation service nor the content system.
C9_ReadFailureIsNoRows ==
    \A r \in Runs :
        hist[r].planReadFailed =>
            /\ pc[r] = "done"
            /\ err[r] = "None"
            /\ result[r] = [status |-> "no_rows"]
            /\ values[r] = <<>>
            /\ writes[r] = {}
            /\ hist[r].know = 0 /\ hist[r].gen = 0
            /\ hist[r].cat = 0 /\ hist[r].create = 0

\* the read failed on all attempts although the tab held a READY row
C9_Witness ==
    \E r \in Runs :
        /\ hist[r].planReadFailed
        /\ pc[r] = "done"
        /\ \E j \in 2..Len(plan) : ReadyText(Cell(plan, j, H_Estatus))

\* C10: with data rows of which none is READY, run_once returns
\* nothing_ready, writes no cell, does not read the knowledge tab and calls
\* neither the generation service nor the content system.
C10_NothingReadyNoEffects ==
    \A r \in Runs :
        ( /\ HasScanned(r)
          /\ \A j \in 2..Len(values[r]) : ~ReadyText(Cell(values[r], j, H_Estatus)) ) =>
            /\ pc[r] = "done"
            /\ result[r] = [status |-> "nothing_ready"]
            /\ writes[r] = {}
            /\ plan = values[r]
            /\ hist[r].know = 0 /\ hist[r].gen = 0
            /\ hist[r].cat = 0 /\ hist[r].create = 0

\* a run found data rows, none READY, and returned nothing_ready
C10_Witness ==
    \E r \in Runs :
        /\ result[r].status = "nothing_ready"
        /\ Len(values[r]) >= 2
        /\ \A j \in 2..Len(values[r]) : ~ReadyText(Cell(values[r], j, H_Estatus))

(* ===================== properties of with_backoff ===================== *)
\* the operation fails its first k attempts and returns on attempt k + 1
FailsThenReturns(k) ==
    /\ k + 1 <= bo_in.tries
    /\ \A i \in 1..k : ~bo_in.op[i].ok
    /\ bo_in.op[k + 1].ok

\* C7: an operation that fails k times and then succeeds (k + 1 <= tries)
\* makes with_backoff return its value after exactly k + 1 calls and exactly
\* k sleeps, each wait strictly longer than the one before, whatever the
\* jitter.
C7_RetryThenReturn ==
    bo_out.status # "None" =>
        \A k \in 0..(bo_in.tries - 1) :
            FailsThenReturns(k) =>
                /\ bo_out.status = "return"
                /\ bo_out.value = bo_in.op[k + 1].v
                /\ bo_out.calls = k + 1
                /\ Len(bo_out.sleeps) = k
                /\ \A i \in 1..(k - 1) : bo_out.sleeps[i] < bo_out.sleeps[i + 1]

\* two failures, then success, with the largest jitter on the first wait and
\* the smallest on the second
C7_Witness ==
    /\ bo_out.status = "return"
    /\ FailsThenReturns(2)
    /\ bo_in.jit[1] = JitterBound - 1
    /\ bo_in.jit[2] = 0
    /\ Len(bo_out.sleeps) = 2

\* C8: an operation that fails on every attempt is called exactly tries
\* times, whatever the kinds of its errors, and with_backoff raises the error
\* of the last attempt.
C8_ExhaustedRaisesLast ==
    (bo_out.status # "None" /\ \A i \in 1..bo_in.tries : ~bo_in.op[i].ok) =>
        /\ bo_out.status = "raise"
        /\ bo_out.calls = bo_in.tries
        /\ bo_out.value = bo_in.op[bo_in.tries].v

\* five failing attempts of two different kinds, the last error raised
C8_Witness ==
    /\ bo_out.status = "raise"
    /\ bo_in.tries = DefaultTries
    /\ bo_out.calls = DefaultTries
    /\ bo_in.op[1].v # bo_in.op[DefaultTries].v

(* ================== further properties of run_once ==================== *)
\* no data row of the grid reads READY
NoneReady(grid) == \A j \in 2..Len(grid) : ~ReadyText(Cell(grid, j, H_Estatus))

\* C11: run_once returns no_rows exactly when the grid it read has no data
\* row (empty, or the header row only) and nothing_ready exactly when the
\* grid has a data row and none is READY.
C11_NoRowsVersusNothingReady ==
    \A r \in Runs :
        /\ result[r].status = "no_rows" <=> (pc[r] = "done" /\ Len(values[r]) < 2)
        /\ result[r].status = "nothing_ready" <=>
              (pc[r] = "done" /\ Len(values[r]) >= 2 /\ NoneReady(values[r]))
        /\ (pc[r] \notin {"idle", "read_plan", "raised"}) =>
              (Len(values[r]) < 2 => pc[r] = "done")

\* the tab held its header row only and the run returned no_rows
C11_Witness ==
    \E r \in Runs :
        /\ result[r].status = "no_rows"
        /\ Len(values[r]) = 1
        /\ ~hist[r].planReadFailed

\* the post the run created, as the content system holds it
PostOf(r) == posts[created[r].id]

\* C12: a run whose every step succeeded returns status ok with the row
\* number it claimed and the id and link of the post it created, and the
\* row's Estatus reads PUBLISHED whether the post was created as a draft or
\* as a published post.
C12_OkReportsRowAndPost ==
    \A r \in Runs :
        /\ (pc[r] = "done" /\ target[r] # 0) => result[r].status = "ok"
        /\ result[r].status = "ok" =>
             /\ pc[r] = "done"
             /\ result[r].row = target[r] /\ target[r] >= 2
             /\ created[r].id # 0
             /\ result[r].wp_post_id = created[r].id
             /\ result[r].link = created[r].link
             /\ PostOf(r).by = r /\ PostOf(r).row = target[r]
             /\ PostOf(r).status \in {DEFAULT_WP_STATUS, Publish}
             /\ Cell(plan, target[r], H_Estatus) = PUBLISHED

\* a run returned ok for a post created as a draft; its row reads PUBLISHED
C12_Witness ==
    \E r \in Runs :
        /\ result[r].status = "ok"
        /\ PostOf(r).status = DEFAULT_WP_STATUS
        /\ Cell(plan, target[r], H_Estatus) = PUBLISHED

\* C13: whatever text the generation service answers, run_once goes on with
\* a title, an excerpt and an html body: no run ends on an error raised by
\* the format of the answer.
C13_NoFormatAbort ==
    \A r \in Runs :
        (hist[r].gen > 0 /\ err[r] # "OpenAIError") =>
            /\ pc[r] # "generate" => post[r] # NoPost
            /\ ~(pc[r] = "raised" /\ err[r] = "AttributeError")

(* ================== properties of _pick_knowledge ==================== *)
\* the rows whose ID_Tema equals the identifier once both are trimmed
IdMatches == {i \in 1..Len(pk_in.rows) :
                 Strip(DictGetOr(pk_in.rows[i], K_ID_Tema, <<>>)) = Strip(pk_in.id)}
PickScore(i) == Score(pk_in.rows[i], QueryTokens(pk_in.tema, pk_in.palabras))
PickScoredRows == {i \in 1..Len(pk_in.rows) : PickScore(i) > 0}
\* how many rows come ahead of row i: those of higher score, and those of
\* equal score that stand earlier in the tab
PickRank(i) ==
    Cardinality({j \in PickScoredRows :
                    PickScore(j) > PickScore(i) \/ (PickScore(j) = PickScore(i) /\ j < i)})

\* C14: _pick_knowledge returns at most two rows: the row whose ID_Tema
\* matches the given identifier after trimming, alone, whatever the token
\* overlaps; otherwise the rows of positive score by falling score, rows of
\* equal score in tab order, cut to the first two.
C14_PickKnowledge ==
    pk_out.status = "return" =>
        LET out == pk_out.picked
        IN  /\ Len(out) <= PickLimit
            /\ IF pk_in.id # <<>> /\ IdMatches # {}
               THEN /\ Len(out) = 1
                    /\ \E i \in IdMatches :
                          /\ out[1] = pk_in.rows[i]
                          /\ \A j \in IdMatches : i <= j
               ELSE /\ Len(out) = IF Cardinality(PickScoredRows) < PickLimit
                                  THEN Cardinality(PickScoredRows) ELSE PickLimit
                    /\ \A k \in 1..Len(out) :
                          \E i \in PickScoredRows :
                              PickRank(i) = k - 1 /\ out[k] = pk_in.rows[i]

\* three rows overlap the query, the first and the last with the same score
\* and differing, and the call returned the first two in tab order
C14_Witness ==
    /\ pk_out.status = "return"
    /\ pk_in.id = <<"z","z">>
    /\ Cardinality(PickScoredRows) = 3
    /\ PickScore(1) = PickScore(3) /\ PickScore(2) < PickScore(1)
    /\ pk_in.rows[1] # pk_in.rows[3]
    /\ pk_out.picked = <<pk_in.rows[1], pk_in.rows[3]>>

(* ============ properties of run_once beside a human editor ============ *)
\* C15: every cell write lands in the column whose header carries the
\* requested name at the time of the write, also when the header row is
\* changed by hand between the scan, the RUNNING write and the PUBLISHED
\* write.
C15_WritesFollowHeader ==
    [][\A r \in Runs : \A w \in writes'[r] \ writes[r] :
           /\ w.col <= Len(plan[1])
           /\ Strip(plan[1][w.col]) = w.name]_vars

(* ================ further properties of with_backoff ================= *)
\* C16: with_backoff sleeps only between attempts: the number of waits is
\* the number of attempts minus one, and after the last failed attempt the
\* error is re-raised without a further wait.
C16_SleepsOnlyBetweenAttempts ==
    bo_out.status # "None" => Len(bo_out.sleeps) = bo_out.calls - 1

(* ================ order of the steps of run_once ====================== *)
\* the run called the generation service or the content system
CalledOut(r) == hist[r].gen > 0 \/ hist[r].cat > 0 \/ hist[r].create > 0

\* the run created a post and the content system holds it
HasPost(r) ==
    /\ created[r].id \in 1..Len(posts)
    /\ PostOf(r).by = r
    /\ PostOf(r).row = target[r]

\* the row carries the link and the id of the post the run created
PostRecorded(r) ==
    /\ Cell(plan, target[r], H_URL_Publicado) = created[r].link
    /\ Cell(plan, target[r], H_WP_Post_ID) = Str(created[r].id)

\* C17 as stated: the RUNNING write precedes every generation and
\* content-system call, the PUBLISHED write follows a successful create_post,
\* and a row the run set to PUBLISHED carries the id and link of its post.
C17_PublishedRowHasPostRecorded ==
    \A r \in Runs :
        /\ CalledOut(r) => Claimed(r)
        /\ StatusPublished(r) => HasPost(r)
        /\ (StatusPublished(r) /\ ~Active(r)) => PostRecorded(r)

\* C17 (amended): the RUNNING write precedes every generation and
\* content-system call and the PUBLISHED write follows a successful
\* create_post, so a row the run set to PUBLISHED has a created post; the
\* link and id on the row are those of that post once the run returned ok,
\* and are those of that post or still empty when the update failed midway.
C17_OrderOfSteps ==
    \A r \in Runs :
        /\ CalledOut(r) => Claimed(r)
        /\ StatusPublished(r) =>
             /\ HasPost(r)
             /\ Cell(plan, target[r], H_URL_Publicado) \in {<<>>, created[r].link}
             /\ Cell(plan, target[r], H_WP_Post_ID) \in {<<>>, Str(created[r].id)}
        /\ (StatusPublished(r) /\ pc[r] = "done") => PostRecorded(r)

\* a run went through generation and creation on a row it had marked
\* RUNNING, then set it to PUBLISHED with the link and id of its post
C17_Witness ==
    \E r \in Runs :
        /\ pc[r] = "done"
        /\ Claimed(r) /\ hist[r].gen = 1 /\ hist[r].create = 1
        /\ StatusPublished(r) /\ HasPost(r) /\ PostRecorded(r)

(* ================== several runs, one after the other ================= *)
\* the runs that marked the given row RUNNING
ClaimersOf(row) == {r \in Runs : target[r] = row /\ Claimed(r)}

\* the posts created for the given row
PostsOf(row) == {i \in 1..Len(posts) : posts[i].row = row}

\* C18: with runs one after the other and no edit by hand, whatever fails,
\* each plan row is marked RUNNING by at most one run and at most one post
\* is created for it: the status cell only ever receives RUNNING or
\* PUBLISHED, never READY.
C18_RowClaimedOnce ==
    /\ \A row \in 2..(MaxRows + 1) :
          /\ Cardinality(ClaimersOf(row)) <= 1
          /\ Cardinality(PostsOf(row)) <= 1
    /\ \A r \in Runs : \A w \in writes[r] :
          w.name = H_Estatus => w.val \in {RUNNING, PUBLISHED}

\* a run failed after marking its row and creating a post for it; a later
\* run scanned the tab and ended without touching that row
C18_Witness ==
    \E r \in Runs : \E q \in Runs :
        /\ r < q
        /\ pc[r] = "raised" /\ Claimed(r) /\ HasPost(r)
        /\ pc[q] \in {"done", "raised"} /\ HasScanned(q)
        /\ target[q] # target[r]
        /\ ClaimersOf(target[r]) = {r}

(* ================= draining the plan, call after call ================= *)
\* the READY rows of the tab as the first run found it
ReadyRowsAtStart ==
    {j \in 2..Len(values[1]) : ReadyText(Cell(values[1], j, H_Estatus))}

\* the n-th READY row from the top
NthReady(n) ==
    CHOOSE j \in ReadyRowsAtStart :
        Cardinality({i \in ReadyRowsAtStart : i < j}) = n - 1

\* run r ended as the r-th of the runs draining the tab
DrainOutcome(r) ==
    IF r <= Cardinality(ReadyRowsAtStart)
    THEN /\ result[r].status = "ok"
         /\ target[r] = NthReady(r)
         /\ result[r].row = target[r]
         /\ HasPost(r) /\ created[r].id = r
         /\ Cell(plan, target[r], H_Estatus) = PUBLISHED
    ELSE /\ result[r].status = IF Len(values[1]) < 2 THEN "no_rows" ELSE "nothing_ready"
         /\ target[r] = 0

FinalUpdateFailed(r) == pc[r] = "raised" /\ created[r].id # 0

\* the three fields of the row are as the scan found them
NothingRecorded(r) ==
    \A h \in {H_Titulo_Final, H_URL_Publicado, H_WP_Post_ID} :
        Cell(plan, target[r], h) = Cell(values[r], target[r], h)

\* the three fields of the row all carry the outcome of the run
AllRecorded(r) ==
    /\ Cell(plan, target[r], H_Titulo_Final) = post[r].title
    /\ PostRecorded(r)

\* the post is in the content system and create_post was called once
PostStaysOnce(r) ==
    /\ HasPost(r)
    /\ hist[r].create = 1
    /\ Cardinality({i \in 1..Len(posts) : posts[i].by = r}) = 1

\* C20 as stated: when the final plan update fails after the post was
\* created, the run fails, the row is left RUNNING with the title, link and
\* id not or only partly recorded, and the post stays, created once.
C20_FinalFailureLeavesRunning ==
    \A r \in Runs :
        FinalUpdateFailed(r) =>
            /\ Cell(plan, target[r], H_Estatus) = RUNNING
            /\ ~AllRecorded(r)
            /\ PostStaysOnce(r)

\* C20 (amended): when the final plan update fails after the post was
\* created, the run fails and the post stays, created once and never
\* retracted; the row is left RUNNING with none of the three fields recorded
\* when the Estatus write itself failed, and otherwise reads PUBLISHED with
\* the fields written ahead of the failing entry, in the order title, link,
\* id.
C20_FinalFailureKeepsPost ==
    \A r \in Runs :
        FinalUpdateFailed(r) =>
            /\ PostStaysOnce(r)
            /\ result[r] = NoResult
            /\ IF StatusPublished(r)
               THEN /\ Cell(plan, target[r], H_Estatus) = PUBLISHED
                    /\ Cell(plan, target[r], H_WP_Post_ID) \in {<<>>, Str(created[r].id)}
                    /\ Cell(plan, target[r], H_WP_Post_ID) # <<>> =>
                           Cell(plan, target[r], H_URL_Publicado) = created[r].link
                    /\ Cell(plan, target[r], H_URL_Publicado) \in {<<>>, created[r].link}
                    /\ Cell(plan, target[r], H_URL_Publicado) # <<>> =>
                           Cell(plan, target[r], H_Titulo_Final) = post[r].title
               ELSE /\ Cell(plan, target[r], H_Estatus) = RUNNING
                    /\ NothingRecorded(r)

\* the final update failed on the WP_Post_ID entry: the post exists, the row
\* reads PUBLISHED with the title and the link but without the id
C20_Witness ==
    \E r \in Runs :
        /\ FinalUpdateFailed(r)
        /\ StatusPublished(r)
        /\ Cell(plan, target[r], H_URL_Publicado) = created[r].link
        /\ Cell(plan, target[r], H_WP_Post_ID) = <<>>
        /\ HasPost(r)

====
